---- MODULE Spec2Model ----
(***************************************************************************)
(* A model of the lsvd Disk (src/disk.go): the single writer              *)
(* (WriteExtent, ZeroBlocks, CloseSegment), the background goroutine that *)
(* closeSegmentAsync starts for every sealed creator (Flush, Create,      *)
(* UpdateBatch, Clear, cleanupDeletedSegments), the read path (ReadExtent,*)
(* fillFromWriteCache, readPartialExtent) and the S3 volume object index  *)
(* (AppendToObjects, RemoveSegmentFromVolume).                            *)
(*                                                                         *)
(* Sizes are in bytes.  A RangeData carries one value for all its blocks: *)
(* 0 is the all-zero block, and every write stores a value no earlier     *)
(* write stored, so a stale read is always visible.  The build modelled   *)
(* is the non-debug one (mode.Debug() is false).                          *)
(***************************************************************************)
EXTENDS Integers, Sequences, FiniteSets, TLC

\* ------------------------------------------------------------------ bounds
NumLBA == 2          \* the volume has blocks 0 .. NumLBA-1
MaxWrites == 2       \* WriteExtent / ZeroBlocks calls of the writer
MaxSeals == 2        \* creators sealed by closeSegmentAsync
MaxFlushFail == 1    \* failed Flush attempts over the whole run
FlushBlocks == 2     \* FlushThreshHold, in raw blocks
AlgLBA == 4          \* the extent algebra is exercised on blocks 0 .. AlgLBA-1
MaxList == 3         \* the longest list given to SubMany
MaxBoots == 1        \* times the process dies and the disk is reopened
MapLBA == 3          \* the ExtentMap is exercised on blocks 0 .. MapLBA-1
MaxRanges == 2        \* the most ranges of one WriteExtents call
MaxObjBlocks == 3     \* the most blocks an ObjectCreator is given before a Reset
LruCapacity == 1      \* the size of the open-segment LRU, standing for its 256
LruThreads == 2       \* threads that run readPartialExtent at the same time
MaxOpens == 3         \* SegmentReaders opened over the whole run
MaxBatch == 2        \* the most entries of one segment in that exercise

\* --------------------------------------------------------------- constants
BlockSize == 4096
FlushThreshHold == FlushBlocks * BlockSize
CompressedBlock == BlockSize \div 2  \* an lz4 size with 0 < csize < BlockSize

Uncompressed == 0
Compressed == 1
Empty == 2

LBAs == 0 .. (NumLBA - 1)
SegIds == 1 .. (MaxSeals + 1)
Nil == [seg |-> 0, ents |-> << >>]   \* the nil *SegmentCreator
ZeroSeg == 0                          \* the zero SegmentId

\* ---------------------------------------------------------- extent algebra
Extent(l, n) == [lba |-> l, blocks |-> n]
End(e) == e.lba + e.blocks
Extents == { Extent(l, n) : l \in LBAs, n \in 1 .. NumLBA } \cap
           { e \in [lba : LBAs, blocks : 1 .. NumLBA] : e.lba + e.blocks <= NumLBA }
Blocks(e) == e.lba .. (End(e) - 1)
Overlaps(a, b) == a.lba < End(b) /\ b.lba < End(a)

CoverExact == "CoverExact"
CoverSuperRange == "CoverSuperRange"
CoverPartly == "CoverPartly"
CoverNone == "CoverNone"

\* a.Cover(b) with the containment test the wrong way round
Cover_SuperAsPartly(a, b) ==
  IF a = b THEN CoverExact
  ELSE IF End(b) <= a.lba \/ End(a) <= b.lba THEN CoverNone
  ELSE IF b.lba <= a.lba /\ End(a) <= End(b) THEN CoverSuperRange
  ELSE CoverPartly

\* a.Cover(b): how a covers b
Cover(a, b) ==
  IF a = b THEN CoverExact
  ELSE IF End(b) <= a.lba \/ End(a) <= b.lba THEN CoverNone
  ELSE IF a.lba <= b.lba /\ End(b) <= End(a) THEN CoverSuperRange
  ELSE CoverPartly

Max(x, y) == IF x >= y THEN x ELSE y
Min(x, y) == IF x <= y THEN x ELSE y

\* Clamp(a, b): the intersection of a and b (only used when they overlap)
Clamp(a, b) == Extent(Max(a.lba, b.lba), Min(End(a), End(b)) - Max(a.lba, b.lba))

\* Sub that forgets the residual behind b
Sub_LeftOnly(a, b) ==
  IF ~Overlaps(a, b) THEN << a >>
  ELSE IF a.lba < b.lba THEN << Extent(a.lba, b.lba - a.lba) >> ELSE << >>

\* Sub(a, b): a \ b as 0, 1 or 2 extents in ascending order
Sub(a, b) ==
  IF ~Overlaps(a, b) THEN << a >>
  ELSE (IF a.lba < b.lba THEN << Extent(a.lba, b.lba - a.lba) >> ELSE << >>)
       \o (IF End(b) < End(a) THEN << Extent(End(b), End(a) - End(b)) >> ELSE << >>)

RECURSIVE SubEach(_, _)
\* every hole of the list replaced by what is left of it after b
SubEach(holes, b) ==
  IF holes = << >> THEN << >>
  ELSE Sub(Head(holes), b) \o SubEach(Tail(holes), b)

RECURSIVE SortByStart(_)
SortByStart(L) ==
  IF L = << >> THEN << >>
  ELSE LET i == CHOOSE i \in 1 .. Len(L) :
                  \A j \in 1 .. Len(L) :
                     L[i].lba < L[j].lba \/ (L[i].lba = L[j].lba /\ i <= j)
           rest == [k \in 1 .. (Len(L) - 1) |-> IF k < i THEN L[k] ELSE L[k + 1]]
       IN  << L[i] >> \o SortByStart(rest)

RECURSIVE SubSorted(_, _)
SubSorted(holes, L) ==
  IF L = << >> THEN holes ELSE SubSorted(SubEach(holes, Head(L)), Tail(L))

\* SubMany that subtracts only the first extent of the sorted list
SubMany_FirstOnly(a, L) ==
  IF L = << >> THEN << a >> ELSE Sub(a, SortByStart(L)[1])

\* SubMany(a, L): a minus the union of L
SubMany(a, L) == SubSorted(<< a >>, SortByStart(L))

\* ------------------------------------------------------------ SegmentCreator
\* one record of the creator's extent vector
OcEntry(e, flags, size, offset, val) ==
  [ext |-> e, flags |-> flags, size |-> size, offset |-> offset, val |-> val]

RECURSIVE BodySizeOf(_)
BodySizeOf(ents) ==
  IF ents = << >> THEN 0 ELSE ents[1].size + BodySizeOf(Tail(ents))

\* SegmentCreator.WriteExtent: zero data is recorded Empty with no body bytes,
\* other data compressed when lz4 makes it smaller, raw otherwise
OcWriteExtent(ents, e, val, compressible) ==
  IF val = 0 THEN Append(ents, OcEntry(e, Empty, 0, 0, 0))
  ELSE IF compressible
       THEN Append(ents, OcEntry(e, Compressed, e.blocks * CompressedBlock,
                                 BodySizeOf(ents), val))
       ELSE Append(ents, OcEntry(e, Uncompressed, e.blocks * BlockSize,
                                 BodySizeOf(ents), val))

\* SegmentCreator.ZeroBlocks: one Empty extent
OcZeroBlocks(ents, e) == Append(ents, OcEntry(e, Empty, 0, 0, 0))

RECURSIVE FillData(_, _, _)
\* FillExtent, the data: entries are scanned in order, later ones shadow earlier
FillData(ents, req, data) ==
  IF ents = << >> THEN data
  ELSE LET x == Head(ents)
           d2 == IF Overlaps(x.ext, req)
                 THEN [l \in LBAs |-> IF l \in Blocks(Clamp(x.ext, req))
                                       THEN x.val ELSE data[l]]
                 ELSE data
       IN  FillData(Tail(ents), req, d2)

RECURSIVE FillUsed(_, _)
\* FillExtent, the result: the clamped regions that were filled
FillUsed(ents, req) ==
  IF ents = << >> THEN << >>
  ELSE (IF Overlaps(Head(ents).ext, req) THEN << Clamp(Head(ents).ext, req) >> ELSE << >>)
       \o FillUsed(Tail(ents), req)

\* ------------------------------------------------------------- ObjectCreator
\* what lz4.CompressBlock returns for a block: the sizes around the two
\* ends of 0 < sz < BlockSize, and LzErr for a call that returns an error
LzErr == 0 - 1
CSizes == {0, 1, BlockSize - 1, BlockSize}

\* a block of an extent, by what WriteExtent asks of it: whether it equals
\* emptyBlock, and the size lz4 compresses it to
ObjBlocks == {[zero |-> TRUE, lz4 |-> 0]} \cup
             [zero : {FALSE}, lz4 : CSizes \cup {LzErr}]

ocBlock(lba, flags, size, offset) ==
  [lba |-> lba, flags |-> flags, size |-> size, offset |-> offset]

\* the zero ObjectCreator, and the one Reset leaves
NewObjectCreator == [cnt |-> 0, offset |-> 0, blocks |-> << >>, body |-> << >>]

\* the bytes in the body buffer; every Write is kept as one chunk
RECURSIVE BodyLen(_)
BodyLen(body) == IF body = << >> THEN 0 ELSE Head(body) + BodyLen(Tail(body))

\* one turn of WriteExtent's loop that takes every size below BlockSize for
\* a compressed block, the 0 of an incompressible block included
ObjWriteBlock_ZeroIsCompressed(o, lba, b) ==
  IF b.zero
  THEN [o |-> [o EXCEPT !.cnt = @ + 1,
                        !.blocks = Append(@, ocBlock(lba, 2, 0, 0))],
        err |-> FALSE]
  ELSE IF b.lz4 = LzErr THEN [o |-> o, err |-> TRUE]
  ELSE LET packed == b.lz4 < BlockSize
           len == IF packed THEN b.lz4 ELSE BlockSize
           flags == IF packed THEN 1 ELSE 0
       IN  [o |-> [cnt |-> o.cnt + 1,
                   blocks |-> Append(o.blocks, ocBlock(lba, flags, len, o.offset)),
                   body |-> Append(o.body, len),
                   offset |-> o.offset + len],
            err |-> FALSE]

\* one turn of the loop of ObjectCreator.WriteExtent, for block b at lba
ObjWriteBlock(o, lba, b) ==
  IF b.zero
  THEN [o |-> [o EXCEPT !.cnt = @ + 1,
                        !.blocks = Append(@, ocBlock(lba, 2, 0, 0))],
        err |-> FALSE]
  ELSE IF b.lz4 = LzErr THEN [o |-> o, err |-> TRUE]
  ELSE LET packed == b.lz4 > 0 /\ b.lz4 < BlockSize
           len == IF packed THEN b.lz4 ELSE BlockSize
           flags == IF packed THEN 1 ELSE 0
       IN  [o |-> [cnt |-> o.cnt + 1,
                   blocks |-> Append(o.blocks, ocBlock(lba, flags, len, o.offset)),
                   body |-> Append(o.body, len),
                   offset |-> o.offset + len],
            err |-> FALSE]

\* the loop from block i on: the first error ends it, with the blocks before
\* it recorded
RECURSIVE ObjWriteFrom(_, _, _, _)
ObjWriteFrom(o, firstBlock, ext, i) ==
  IF i > Len(ext) THEN [o |-> o, err |-> FALSE]
  ELSE LET r == ObjWriteBlock(o, firstBlock + (i - 1), ext[i])
       IN  IF r.err THEN r ELSE ObjWriteFrom(r.o, firstBlock, ext, i + 1)

\* no WriteExtent call since the creator was made or reset
NoCall == [firstBlock |-> 0, ext |-> << >>, err |-> FALSE]

\* ---------------------------------------------------------------- ExtentMap
\* a PartialExtent: what is still valid (partial) of an extent written as full
PartialExtent(partial, x) ==
  [partial |-> partial, full |-> x.full, seg |-> x.seg, flags |-> x.flags,
   size |-> x.size, rawSize |-> x.rawSize, offset |-> x.offset]

\* the ExtentLocation list Flush returns for a creator's extent vector
FlushEntries(ents, seg) ==
  [i \in 1 .. Len(ents) |->
     [partial |-> ents[i].ext, full |-> ents[i].ext, seg |-> seg,
      flags |-> ents[i].flags, size |-> ents[i].size,
      rawSize |-> ents[i].ext.blocks * BlockSize, offset |-> ents[i].offset]]

RECURSIVE SeqToSet(_)
SeqToSet(q) == IF q = << >> THEN {} ELSE {Head(q)} \cup SeqToSet(Tail(q))

\* the entries of m that overlap e
Affected(m, e) == { x \in m : Overlaps(x.partial, e) }

\* ExtentMap.Update: overlapping entries are removed or clipped to what is
\* left of them, then pe is inserted
MapUpdate(m, pe) ==
  (m \ Affected(m, pe.partial))
    \cup UNION { { PartialExtent(r, x) : r \in SeqToSet(Sub(x.partial, pe.partial)) } :
                 x \in Affected(m, pe.partial) }
    \cup { pe }

RECURSIVE ClippedBlocks(_, _)
\* the blocks that inserting e takes away from the entries of S
ClippedBlocks(S, e) ==
  IF S = {} THEN 0
  ELSE LET x == CHOOSE x \in S : TRUE
       IN  Clamp(x.partial, e).blocks + ClippedBlocks(S \ {x}, e)

\* Segments.UpdateLiveBlocks for one Update: the owners of clipped entries
\* lose the clipped blocks, the inserting segment gains the inserted blocks
LiveAfter(live, m, pe) ==
  [s \in DOMAIN live |->
     live[s] + (IF s = pe.seg THEN pe.partial.blocks ELSE 0)
       - ClippedBlocks({ x \in Affected(m, pe.partial) : x.seg = s }, pe.partial)]

RECURSIVE UpdateBatch(_, _, _)
\* ExtentMap.UpdateBatch: Update for every entry, in the segment's order
UpdateBatch(m, live, entries) ==
  IF entries = << >> THEN [map |-> m, live |-> live]
  ELSE UpdateBatch(MapUpdate(m, Head(entries)),
                   LiveAfter(live, m, Head(entries)), Tail(entries))

\* the segments the batch leaves without a live block: the installed segment
\* if nothing of it is live, and every segment the batch brought to zero
NewlyDead(before, after, seg) ==
  { s \in DOMAIN after : after[s] = 0 /\ (s = seg \/ before[s] > 0) }

RECURSIVE SortPes(_)
SortPes(S) ==
  IF S = {} THEN << >>
  ELSE LET x == CHOOSE x \in S : \A y \in S : x.partial.lba <= y.partial.lba
       IN  << x >> \o SortPes(S \ {x})

\* Resolve that returns the entries as they are stored
Resolve_Unclamped(m, rng) == SortPes(Affected(m, rng))

\* ExtentMap.Resolve: the entries that intersect rng, clamped to it, by LBA
Resolve(m, rng) ==
  SortPes({ PartialExtent(Clamp(x.partial, rng), x) : x \in Affected(m, rng) })

\* --------------------------------------------------------------------- state
VARIABLES
  curSeq,       \* Disk.curSeq: the SegmentId of the current creator
  curOC,        \* Disk.curOC: the extent vector of the current creator
  prevCache,    \* Disk.prevCache: the sealed creator still serving reads, or Nil
  lba2pba,      \* Disk.lba2pba: the ExtentMap, a set of PartialExtents
  segments,     \* Disk.s: SegmentId -> liveBlocks
  dead,         \* Disk.s: the segments marked dead and not yet purged
  store,        \* the object store: the SegmentIds whose blob exists
  index,        \* the volume object index volumes/<vol>/objects
  openSegments, \* Disk.openSegments: the segments with a cached reader
  extentCache,  \* Disk.extentCache: the (segment, offset) keys cached on disk
  wpc,          \* where the writer is: idle, SetWhenClear, CloseWait
  wop,          \* the writer's call in progress: write or close
  woc,          \* closeSegmentAsync's local oc (and segId)
  wres,         \* what the writer's last call returned
  nwrites,      \* WriteExtent / ZeroBlocks calls so far
  shadow,       \* for every block the value of the latest write to it
  gpc,          \* where the goroutine of each sealed segment is
  gents,        \* the extent vector of the creator each goroutine flushes
  gctx,         \* whether the context each goroutine captured is cancelled
  glist,        \* the ListSegments result a goroutine holds
  gdel,         \* the FindDeleted result a goroutine still has to purge
  nfail,        \* failed Flush attempts so far
  installed,    \* the segments whose UpdateBatch has run, with how often
  rpc,          \* where the reader is
  rowner,       \* who reads: the writer's thread or another one
  rrng,         \* ReadExtent's rng
  rdata,        \* ReadExtent's data
  rholes,       \* the extents still to fill
  rreqs,        \* ReadExtent's reqs
  rlast,        \* whether last is the final element of reqs
  rres,         \* what ReadExtent returned
  rfault,       \* the store failure the read met
  zeroed,       \* the blocks whose latest write is a ZeroBlocks
  boots,        \* how often the process died and NewDisk reopened the disk
  xa,           \* extent algebra: the receiver a
  xb,           \* extent algebra: the argument b
  xL,           \* extent algebra: the argument list L
  xop,          \* extent algebra: the operation that was applied
  xres,         \* extent algebra: its result
  objc,         \* an ObjectCreator: cnt, offset, blocks, body
  ocall,        \* its last WriteExtent call: firstBlock, ext, and whether it failed
  curOCNil,     \* whether Disk.curOC is the nil pointer
  lru,          \* Disk.openSegments as the cache keeps it: (segment, reader), newest first
  srClosed,     \* for every SegmentReader opened so far, how often Close was called on it
  lt,           \* readPartialExtent of each thread: where it is, its segment, its ci
  lclosed       \* what Disk.Close has done: none, failed, closed

wvars == << curSeq, curOC, wpc, wop, woc, wres, nwrites, shadow, zeroed >>
dvars == << prevCache, lba2pba, segments, dead, store, index, installed >>
gvars == << gpc, gents, gctx, glist, gdel, nfail >>
lvars == << lru, srClosed, lt, lclosed >>
ovars == << objc, ocall, curOCNil, lvars >>
avars == << boots, xa, xb, xL, xop, xres, ovars >>
rvars == << rpc, rowner, rrng, rdata, rholes, rreqs, rlast, rres, rfault,
            openSegments, extentCache, avars >>
vars == << wvars, dvars, gvars, rvars >>

ZeroData == [l \in LBAs |-> 0]

\* the threads of the read path, and one that is not in readPartialExtent
Threads == 1 .. LruThreads
NoRead == [pc |-> "idle", seg |-> 0, ci |-> 0]

\* the disk right after NewDisk, on a store that holds the blobs given
DiskInitOn(blobs) ==
  /\ curSeq = 1
  /\ curOC = << >>
  /\ prevCache = Nil
  /\ lba2pba = {}
  /\ segments = << >>
  /\ dead = {}
  /\ store = blobs
  /\ index = << >>
  /\ openSegments = {}
  /\ extentCache = {}
  /\ wpc = "idle"
  /\ wop = "none"
  /\ woc = Nil
  /\ wres = "none"
  /\ nwrites = 0
  /\ shadow = ZeroData
  /\ gpc = [s \in SegIds |-> "none"]
  /\ gents = [s \in SegIds |-> << >>]
  /\ gctx = [s \in SegIds |-> FALSE]
  /\ glist = [s \in SegIds |-> << >>]
  /\ gdel = [s \in SegIds |-> << >>]
  /\ nfail = 0
  /\ installed = [s \in SegIds |-> 0]
  /\ rpc = "idle"
  /\ rowner = "none"
  /\ rrng = Extent(0, 1)
  /\ rdata = ZeroData
  /\ rholes = << >>
  /\ rreqs = << >>
  /\ rlast = FALSE
  /\ rres = "none"
  /\ rfault = "none"
  /\ zeroed = {}
  /\ boots = 0
  /\ objc = NewObjectCreator
  /\ ocall = NoCall
  /\ curOCNil = FALSE
  /\ lru = << >>
  /\ srClosed = << >>
  /\ lt = [t \in Threads |-> NoRead]
  /\ lclosed = "none"

\* the disk right after NewDisk on an empty volume
DiskInit == DiskInitOn({})

Init ==
  /\ DiskInit
  /\ xa = Extent(0, 1)
  /\ xb = Extent(0, 1)
  /\ xL = << >>
  /\ xop = "none"
  /\ xres = << >>

\* -------------------------------------------------------------------- writer
\* the writer's thread is free: no call of its own is in progress
WriterFree == wpc = "idle" /\ (rpc = "idle" \/ rowner # "writer")

\* closeSegmentAsync up to the new creator: segId and oc are taken, and
\* newSegmentCreator replaces curOC and curSeq; lastSeg is the last SegmentId
\* a run may seal
SealBeginUpTo(ents, op, lastSeg) ==
  /\ curSeq <= lastSeg
  /\ woc' = [seg |-> curSeq, ents |-> ents]
  /\ curSeq' = curSeq + 1
  /\ curOC' = << >>
  /\ wpc' = "SetWhenClear"
  /\ wop' = op

SealBegin(ents, op) == SealBeginUpTo(ents, op, MaxSeals)

\* Disk.WriteExtent: the creator takes the data, and a body at the threshold
\* seals it; a run makes at most maxWrites calls
WriteExtentUpTo(e, zero, compressible, maxWrites, lastSeg) ==
  /\ WriterFree
  /\ nwrites < maxWrites
  /\ LET val == IF zero THEN 0 ELSE nwrites + 1
         ents == OcWriteExtent(curOC, e, val, compressible)
     IN  /\ shadow' = [l \in LBAs |-> IF l \in Blocks(e) THEN val ELSE shadow[l]]
         /\ zeroed' = zeroed \ Blocks(e)
         /\ IF BodySizeOf(ents) >= FlushThreshHold
            THEN SealBeginUpTo(ents, "write", lastSeg) /\ wres' = "none"
            ELSE /\ curOC' = ents
                 /\ wres' = "ok"
                 /\ UNCHANGED << curSeq, wpc, wop, woc >>
  /\ nwrites' = nwrites + 1
  /\ UNCHANGED << dvars, gvars, rvars >>

WriteExtent(e, zero, compressible) ==
  WriteExtentUpTo(e, zero, compressible, MaxWrites, MaxSeals)

\* Disk.ZeroBlocks
ZeroBlocks(e) ==
  /\ WriterFree
  /\ nwrites < MaxWrites
  /\ curOC' = OcZeroBlocks(curOC, e)
  /\ shadow' = [l \in LBAs |-> IF l \in Blocks(e) THEN 0 ELSE shadow[l]]
  /\ zeroed' = zeroed \cup Blocks(e)
  /\ nwrites' = nwrites + 1
  /\ wres' = "ok"
  /\ UNCHANGED << curSeq, wpc, wop, woc, dvars, gvars, rvars >>

\* the creator's vector after the ranges were written one after the other;
\* the i-th range stores the value base + i
RECURSIVE OcWriteRanges(_, _, _)
OcWriteRanges(ents, ranges, base) ==
  IF ranges = << >> THEN ents
  ELSE LET r == Head(ranges)
           val == IF r.zero THEN 0 ELSE base + 1
       IN  OcWriteRanges(OcWriteExtent(ents, r.ext, val, r.compressible),
                         Tail(ranges), base + 1)

\* for every block the value of the latest write, after the ranges
RECURSIVE ShadowAfter(_, _, _)
ShadowAfter(sh, ranges, base) ==
  IF ranges = << >> THEN sh
  ELSE LET r == Head(ranges)
           val == IF r.zero THEN 0 ELSE base + 1
       IN  ShadowAfter([l \in LBAs |-> IF l \in Blocks(r.ext) THEN val ELSE sh[l]],
                       Tail(ranges), base + 1)

\* WriteExtents with the threshold checked after every range, as a loop of
\* WriteExtent would: the creator is sealed at the first range that fills it
\* and the ranges after it go to the new creator
WriteExtentsUpTo_CheckEach(ranges, failAt, maxWrites, lastSeg) ==
  /\ WriterFree
  /\ nwrites + Len(ranges) <= maxWrites
  /\ failAt \in 0 .. Len(ranges)
  /\ LET n == IF failAt = 0 THEN Len(ranges) ELSE failAt - 1
         written == SubSeq(ranges, 1, n)
         full == { i \in 1 .. n :
                     BodySizeOf(OcWriteRanges(curOC, SubSeq(ranges, 1, i), nwrites))
                       >= FlushThreshHold }
         cut == IF full = {} THEN 0 ELSE CHOOSE i \in full : \A j \in full : i <= j
     IN  /\ shadow' = ShadowAfter(shadow, written, nwrites)
         /\ zeroed' = zeroed \ UNION { Blocks(written[i].ext) : i \in 1 .. n }
         /\ nwrites' = nwrites + (IF failAt = 0 THEN n ELSE failAt)
         /\ IF cut # 0
            THEN /\ curSeq <= lastSeg
                 /\ woc' = [seg |-> curSeq,
                            ents |-> OcWriteRanges(curOC, SubSeq(ranges, 1, cut), nwrites)]
                 /\ curSeq' = curSeq + 1
                 /\ curOC' = OcWriteRanges(<< >>, SubSeq(ranges, cut + 1, n), nwrites + cut)
                 /\ wpc' = "SetWhenClear"
                 /\ wop' = "write"
                 /\ wres' = "none"
            ELSE /\ curOC' = OcWriteRanges(curOC, written, nwrites)
                 /\ wres' = IF failAt # 0 THEN "err" ELSE "ok"
                 /\ UNCHANGED << curSeq, wpc, wop, woc >>
  /\ UNCHANGED << dvars, gvars, rvars >>

\* Disk.WriteExtents: every range goes into the current creator, the first
\* error of the creator ends the call (failAt is the range it fails on, 0
\* for none), and after the last range a body at the threshold seals the
\* creator; nwrites counts the creator's WriteExtent calls
WriteExtentsUpTo(ranges, failAt, maxWrites, lastSeg) ==
  /\ WriterFree
  /\ nwrites + Len(ranges) <= maxWrites
  /\ failAt \in 0 .. Len(ranges)
  /\ LET n == IF failAt = 0 THEN Len(ranges) ELSE failAt - 1
         written == SubSeq(ranges, 1, n)
         ents == OcWriteRanges(curOC, written, nwrites)
     IN  /\ shadow' = ShadowAfter(shadow, written, nwrites)
         /\ zeroed' = zeroed \ UNION { Blocks(written[i].ext) : i \in 1 .. n }
         /\ nwrites' = nwrites + (IF failAt = 0 THEN n ELSE failAt)
         /\ IF failAt # 0
            THEN /\ curOC' = ents
                 /\ wres' = "err"
                 /\ UNCHANGED << curSeq, wpc, wop, woc >>
            ELSE IF BodySizeOf(ents) >= FlushThreshHold
            THEN SealBeginUpTo(ents, "write", lastSeg) /\ wres' = "none"
            ELSE /\ curOC' = ents
                 /\ wres' = "ok"
                 /\ UNCHANGED << curSeq, wpc, wop, woc >>
  /\ UNCHANGED << dvars, gvars, rvars >>

\* Disk.CloseSegment, its call of closeSegmentAsync
CloseSegment ==
  /\ WriterFree
  /\ SealBegin(curOC, "close")
  /\ wres' = "none"
  /\ UNCHANGED << nwrites, shadow, zeroed, dvars, gvars, rvars >>

\* closeSegmentAsync when newSegmentCreator returns an error: its nil
\* result is already stored in d.curOC, and d.curSeq is already the new id
\* unless it was nextSeq that failed (seqFails); oc, the creator with the
\* buffered writes (ents), is a local of the call that returns
SealFail(ents, seqFails) ==
  /\ curOCNil' = TRUE
  /\ curOC' = << >>
  /\ curSeq' = IF seqFails THEN curSeq ELSE curSeq + 1
  /\ wres' = "err"
  /\ UNCHANGED << wpc, wop, woc >>

\* Disk.WriteExtent when the creator is full and closeSegmentAsync fails
WriteExtentSealFail(e, zero, compressible, seqFails) ==
  /\ WriterFree
  /\ ~curOCNil
  /\ nwrites < MaxWrites
  /\ curSeq <= MaxSeals
  /\ LET val == IF zero THEN 0 ELSE nwrites + 1
         ents == OcWriteExtent(curOC, e, val, compressible)
     IN  /\ BodySizeOf(ents) >= FlushThreshHold
         /\ shadow' = [l \in LBAs |-> IF l \in Blocks(e) THEN val ELSE shadow[l]]
         /\ zeroed' = zeroed \ Blocks(e)
         /\ SealFail(ents, seqFails)
  /\ nwrites' = nwrites + 1
  /\ UNCHANGED << dvars, gvars, rpc, rowner, rrng, rdata, rholes, rreqs, rlast,
                  rres, rfault, openSegments, extentCache, boots,
                  xa, xb, xL, xop, xres, objc, ocall, lvars >>

\* Disk.CloseSegment when closeSegmentAsync fails
CloseSegmentFail(seqFails) ==
  /\ WriterFree
  /\ ~curOCNil
  /\ curSeq <= MaxSeals
  /\ SealFail(curOC, seqFails)
  /\ UNCHANGED << nwrites, shadow, zeroed, dvars, gvars, rpc, rowner, rrng,
                  rdata, rholes, rreqs, rlast, rres, rfault, openSegments,
                  extentCache, boots, xa, xb, xL, xop, xres, objc, ocall, lvars >>

\* a call that goes to the creator while d.curOC is nil: WriteExtent and
\* ZeroBlocks call d.curOC.WriteExtent / ZeroBlocks, ReadExtent calls
\* d.curOC.FillExtent, and the method reads the fields of a nil creator
NilCreatorCall(call) ==
  /\ WriterFree
  /\ curOCNil
  /\ wres # "panic"
  /\ call \in {"WriteExtent", "ZeroBlocks", "ReadExtent"}
  /\ wres' = "panic"
  /\ wpc' = "dead"
  /\ UNCHANGED << curSeq, curOC, wop, woc, nwrites, shadow, zeroed, dvars, gvars,
                  rvars >>

\* PreviousCache.SetWhenClear may store into the slot: the slot is clear
SlotIsClear(slot) == slot = Nil

\* SetWhenClear as a plain store: the slot is overwritten without waiting
SetWhenClear_Overwrite ==
  /\ wpc = "SetWhenClear"
  /\ prevCache' = woc
  /\ gpc' = [gpc EXCEPT ![woc.seg] = "flush"]
  /\ gents' = [gents EXCEPT ![woc.seg] = woc.ents]
  /\ IF wop = "write"
     THEN wpc' = "idle" /\ wres' = "ok" /\ wop' = "none" /\ woc' = Nil
     ELSE wpc' = "CloseWait" /\ UNCHANGED << wres, wop, woc >>
  /\ UNCHANGED << curSeq, curOC, nwrites, shadow, zeroed, lba2pba, segments, dead, store,
                  index, installed, gctx, glist, gdel, nfail, rvars >>

\* PreviousCache.SetWhenClear and the rest of closeSegmentAsync: the call
\* waits until the slot is clear, stores oc, and the goroutine starts
SetWhenClear ==
  /\ wpc = "SetWhenClear"
  /\ SlotIsClear(prevCache)
  /\ prevCache' = woc
  /\ gpc' = [gpc EXCEPT ![woc.seg] = "flush"]
  /\ gents' = [gents EXCEPT ![woc.seg] = woc.ents]
  /\ IF wop = "write"
     THEN wpc' = "idle" /\ wres' = "ok" /\ wop' = "none" /\ woc' = Nil
     ELSE wpc' = "CloseWait" /\ UNCHANGED << wres, wop, woc >>
  /\ UNCHANGED << curSeq, curOC, nwrites, shadow, zeroed, lba2pba, segments, dead, store,
                  index, installed, gctx, glist, gdel, nfail, rvars >>

\* Disk.CloseSegment, its select: done is closed or the context is cancelled
CloseSegmentWait ==
  /\ wpc = "CloseWait"
  /\ \/ gpc[woc.seg] = "done" /\ wres' = "ok"
     \/ gctx[woc.seg] /\ wres' = "cancelled"
  /\ wpc' = "idle"
  /\ wop' = "none"
  /\ woc' = Nil
  /\ UNCHANGED << curSeq, curOC, nwrites, shadow, zeroed, dvars, gvars, rvars >>

\* the caller cancels the context it gave to the call that sealed s
CancelCtx(s) ==
  /\ gpc[s] \notin {"none", "done"}
  /\ ~gctx[s]
  /\ gctx' = [gctx EXCEPT ![s] = TRUE]
  /\ UNCHANGED << wvars, dvars, gpc, gents, glist, gdel, nfail, rvars >>

\* ------------------------------------------------- the goroutine of a segment
RECURSIVE Keep(_, _)
\* the elements of list other than seg, in order
Keep(list, seg) ==
  IF list = << >> THEN << >>
  ELSE (IF Head(list) = seg THEN << >> ELSE << Head(list) >>) \o Keep(Tail(list), seg)

\* what slices.DeleteFunc leaves in the slice it was given when its result is
\* dropped: the kept elements moved down, and behind them either the old
\* elements (Go before 1.22) or zero values (Go 1.22 and later)
DeleteFuncInPlace(list, seg, zeroTail) ==
  LET kept == Keep(list, seg)
  IN  [i \in 1 .. Len(list) |->
         IF i <= Len(kept) THEN kept[i]
         ELSE IF zeroTail THEN ZeroSeg ELSE list[i]]

RECURSIVE SortSegs(_)
SortSegs(S) ==
  IF S = {} THEN << >>
  ELSE LET x == CHOOSE x \in S : \A y \in S : x <= y IN << x >> \o SortSegs(S \ {x})

\* oc.Flush, WriteSegment: the blob is uploaded
GoFlushUpload(s) ==
  /\ gpc[s] = "flush"
  /\ ~gctx[s]
  /\ store' = store \cup {s}
  /\ gpc' = [gpc EXCEPT ![s] = "append"]
  /\ UNCHANGED << wvars, prevCache, lba2pba, segments, dead, index, installed,
                  gents, gctx, glist, gdel, nfail, rvars >>

\* S3Access.AppendToObjects, its ListSegments
GoAppendList(s) ==
  /\ gpc[s] = "append"
  /\ ~gctx[s]
  /\ glist' = [glist EXCEPT ![s] = index]
  /\ gpc' = [gpc EXCEPT ![s] = "appendput"]
  /\ UNCHANGED << wvars, dvars, gents, gctx, gdel, nfail, rvars >>

\* S3Access.AppendToObjects, its Upload of the list with seg appended; Flush
\* returns the entries and the stats
GoAppendUpload(s) ==
  /\ gpc[s] = "appendput"
  /\ ~gctx[s]
  /\ index' = Append(glist[s], s)
  /\ glist' = [glist EXCEPT ![s] = << >>]
  /\ gpc' = [gpc EXCEPT ![s] = "create"]
  /\ UNCHANGED << wvars, prevCache, lba2pba, segments, dead, store, installed,
                  gents, gctx, gdel, nfail, rvars >>

\* oc.Flush returns an error (always, once the context is cancelled): the
\* goroutine logs it and sleeps
GoFlushFail(s) ==
  /\ gpc[s] \in {"flush", "append", "appendput"}
  /\ gctx[s] \/ nfail < MaxFlushFail
  /\ nfail' = IF gctx[s] THEN nfail ELSE nfail + 1
  /\ glist' = [glist EXCEPT ![s] = << >>]
  /\ gpc' = [gpc EXCEPT ![s] = "sleep"]
  /\ UNCHANGED << wvars, dvars, gents, gctx, gdel, rvars >>

\* the goroutine gives up after a failed Flush instead of trying again
GoFlushRetry_GiveUp(s) ==
  /\ gpc[s] = "sleep"
  /\ gpc' = [gpc EXCEPT ![s] = "done"]
  /\ UNCHANGED << wvars, dvars, gents, gctx, glist, gdel, nfail, rvars >>

\* the 5 s are over: Flush is tried again
GoFlushRetry(s) ==
  /\ gpc[s] = "sleep"
  /\ gpc' = [gpc EXCEPT ![s] = "flush"]
  /\ UNCHANGED << wvars, dvars, gents, gctx, glist, gdel, nfail, rvars >>

RECURSIVE TotalBlocks(_)
\* SegmentStats.Blocks: the blocks of all extents the creator took
TotalBlocks(ents) ==
  IF ents = << >> THEN 0 ELSE Head(ents).ext.blocks + TotalBlocks(Tail(ents))

\* Create registers the segment with every block it holds counted as live
GoCreate_LiveIsTotal(s) ==
  /\ gpc[s] = "create"
  /\ segments' = [t \in DOMAIN segments \cup {s} |->
                    IF t = s THEN TotalBlocks(gents[s]) ELSE segments[t]]
  /\ gpc' = [gpc EXCEPT ![s] = "update"]
  /\ UNCHANGED << wvars, prevCache, lba2pba, dead, store, index, installed,
                  gents, gctx, glist, gdel, nfail, rvars >>

\* d.s.Create(segId, stats)
GoCreate(s) ==
  /\ gpc[s] = "create"
  /\ segments' = [t \in DOMAIN segments \cup {s} |->
                    IF t = s THEN 0 ELSE segments[t]]
  /\ gpc' = [gpc EXCEPT ![s] = "update"]
  /\ UNCHANGED << wvars, prevCache, lba2pba, dead, store, index, installed,
                  gents, gctx, glist, gdel, nfail, rvars >>

\* the goroutine goes on to Clear without UpdateBatch
GoUpdateBatch_Skipped(s) ==
  /\ gpc[s] = "update"
  /\ gpc' = [gpc EXCEPT ![s] = "clear"]
  /\ UNCHANGED << wvars, dvars, gents, gctx, glist, gdel, nfail, rvars >>

\* the entries are put into the map as they are, nothing is clipped
GoUpdateBatch_NoClip(s) ==
  /\ gpc[s] = "update"
  /\ LET r == UpdateBatch(lba2pba, segments, FlushEntries(gents[s], s))
     IN  /\ lba2pba' = lba2pba \cup SeqToSet(FlushEntries(gents[s], s))
         /\ segments' = r.live
         /\ dead' = dead \cup NewlyDead(segments, r.live, s)
  /\ installed' = [installed EXCEPT ![s] = @ + 1]
  /\ gpc' = [gpc EXCEPT ![s] = "clear"]
  /\ UNCHANGED << wvars, prevCache, store, index,
                  gents, gctx, glist, gdel, nfail, rvars >>

\* UpdateBatch is given only the entries that have body bytes
GoUpdateBatch_DropEmpty(s) ==
  /\ gpc[s] = "update"
  /\ LET r == UpdateBatch(lba2pba, segments,
                          SelectSeq(FlushEntries(gents[s], s), LAMBDA x : x.size > 0))
     IN  /\ lba2pba' = r.map
         /\ segments' = r.live
         /\ dead' = dead \cup NewlyDead(segments, r.live, s)
  /\ installed' = [installed EXCEPT ![s] = @ + 1]
  /\ gpc' = [gpc EXCEPT ![s] = "clear"]
  /\ UNCHANGED << wvars, prevCache, store, index,
                  gents, gctx, glist, gdel, nfail, rvars >>

\* d.lba2pba.UpdateBatch(d.log, entries, segId, d.s)
GoUpdateBatch(s) ==
  /\ gpc[s] = "update"
  /\ LET r == UpdateBatch(lba2pba, segments, FlushEntries(gents[s], s))
     IN  /\ lba2pba' = r.map
         /\ segments' = r.live
         /\ dead' = dead \cup NewlyDead(segments, r.live, s)
  /\ installed' = [installed EXCEPT ![s] = @ + 1]
  /\ gpc' = [gpc EXCEPT ![s] = "clear"]
  /\ UNCHANGED << wvars, prevCache, store, index,
                  gents, gctx, glist, gdel, nfail, rvars >>

\* Clear is called as soon as Flush has returned, before Create and UpdateBatch
GoClear_BeforeInstall(s) ==
  /\ gpc[s] \in {"create", "clear"}
  /\ prevCache' = Nil
  /\ gpc' = [gpc EXCEPT ![s] = IF gpc[s] = "clear" THEN "cleanup" ELSE "create"]
  /\ prevCache # Nil \/ gpc[s] = "clear"
  /\ UNCHANGED << wvars, lba2pba, segments, dead, store, index, installed,
                  gents, gctx, glist, gdel, nfail, rvars >>

\* d.prevCache.Clear()
GoClear(s) ==
  /\ gpc[s] = "clear"
  /\ prevCache' = Nil
  /\ gpc' = [gpc EXCEPT ![s] = "cleanup"]
  /\ UNCHANGED << wvars, lba2pba, segments, dead, store, index, installed,
                  gents, gctx, glist, gdel, nfail, rvars >>

\* cleanupDeletedSegments, d.s.FindDeleted()
GoFindDeleted(s) ==
  /\ gpc[s] = "cleanup"
  /\ gdel' = [gdel EXCEPT ![s] = SortSegs(dead)]
  /\ dead' = {}
  /\ gpc' = [gpc EXCEPT ![s] = IF dead = {} THEN "done" ELSE "rsfvlist"]
  /\ UNCHANGED << wvars, prevCache, lba2pba, segments, store, index, installed,
                  gents, gctx, glist, nfail, rvars >>

\* S3Access.RemoveSegmentFromVolume, its ListSegments
GoRemoveList(s) ==
  /\ gpc[s] = "rsfvlist"
  /\ ~gctx[s]
  /\ glist' = [glist EXCEPT ![s] = index]
  /\ gpc' = [gpc EXCEPT ![s] = "rsfvput"]
  /\ UNCHANGED << wvars, dvars, gents, gctx, gdel, nfail, rvars >>

\* S3Access.RemoveSegmentFromVolume, slices.DeleteFunc and the Upload of the
\* slice that was passed to it
GoRemoveUpload(s) ==
  /\ gpc[s] = "rsfvput"
  /\ ~gctx[s]
  /\ \E zeroTail \in BOOLEAN :
        index' = DeleteFuncInPlace(glist[s], Head(gdel[s]), zeroTail)
  /\ glist' = [glist EXCEPT ![s] = << >>]
  /\ gpc' = [gpc EXCEPT ![s] = "remove"]
  /\ UNCHANGED << wvars, prevCache, lba2pba, segments, dead, store, installed,
                  gents, gctx, gdel, nfail, rvars >>

\* removeSegmentIfPossible: S3Access.RemoveSegment deletes the blob
GoRemoveSegment(s) ==
  /\ gpc[s] = "remove"
  /\ ~gctx[s]
  /\ store' = store \ {Head(gdel[s])}
  /\ gdel' = [gdel EXCEPT ![s] = Tail(@)]
  /\ gpc' = [gpc EXCEPT ![s] = IF Tail(gdel[s]) = << >> THEN "done" ELSE "rsfvlist"]
  /\ UNCHANGED << wvars, prevCache, lba2pba, segments, dead, index, installed,
                  gents, gctx, glist, nfail, rvars >>

\* cleanupDeletedSegments returns the error of a store call (always, once the
\* context is cancelled); the goroutine logs it and ends
GoCleanupFail(s) ==
  /\ gpc[s] \in {"rsfvlist", "rsfvput", "remove"}
  /\ glist' = [glist EXCEPT ![s] = << >>]
  /\ gpc' = [gpc EXCEPT ![s] = "done"]
  /\ UNCHANGED << wvars, dvars, gents, gctx, gdel, nfail, rvars >>

\* --------------------------------------------------------------- the read path
\* Disk.ReadExtent up to fillFromWriteCache: data := NewRangeData(rng)
ReadBegin(r, who) ==
  /\ rpc = "idle"
  /\ who = "writer" => wpc = "idle"
  /\ rpc' = "cur"
  /\ rowner' = who
  /\ rrng' = r
  /\ rdata' = ZeroData
  /\ rholes' = << >>
  /\ rreqs' = << >>
  /\ rlast' = FALSE
  /\ rres' = "none"
  /\ rfault' = "none"
  /\ UNCHANGED << wvars, dvars, gvars, openSegments, extentCache, avars >>

\* fillFromWriteCache: d.curOC.FillExtent(data), then data.SubMany(used)
ReadCur ==
  /\ rpc = "cur"
  /\ LET used == FillUsed(curOC, rrng)
     IN  /\ rdata' = FillData(curOC, rrng, rdata)
         /\ rholes' = IF used = << >> THEN << rrng >> ELSE SubMany(rrng, used)
  /\ rpc' = "prev"
  /\ UNCHANGED << wvars, dvars, gvars, rowner, rrng, rreqs, rlast, rres, rfault,
                  openSegments, extentCache, avars >>

RECURSIVE PrevFill(_, _, _)
\* fillingFromPrevWriteCache, its loop over the holes: the data filled and the
\* holes that remain
PrevFill(ents, holes, acc) ==
  IF holes = << >> THEN acc
  ELSE LET sub == Head(holes)
           used == FillUsed(ents, sub)
       IN  PrevFill(ents, Tail(holes),
                    [data |-> FillData(ents, sub, acc.data),
                     remaining |-> acc.remaining \o
                        (IF used = << >> THEN << sub >> ELSE SubMany(sub, used))])

\* the previous creator is not consulted
ReadPrev_SkipPrevious ==
  /\ rpc = "prev"
  /\ IF rholes = << >>
     THEN rpc' = "done" /\ rres' = "ok"
     ELSE rpc' = "resolve" /\ rres' = rres
  /\ UNCHANGED << wvars, dvars, gvars, rowner, rrng, rdata, rholes, rreqs, rlast,
                  rfault, openSegments, extentCache, avars >>

\* fillingFromPrevWriteCache, and ReadExtent's return when nothing remains
ReadPrev ==
  /\ rpc = "prev"
  /\ LET r == IF prevCache = Nil
              THEN [data |-> rdata, remaining |-> rholes]
              ELSE PrevFill(prevCache.ents, rholes,
                            [data |-> rdata, remaining |-> << >>])
     IN  /\ rdata' = r.data
         /\ rholes' = r.remaining
         /\ IF r.remaining = << >>
            THEN rpc' = "done" /\ rres' = "ok"
            ELSE rpc' = "resolve" /\ rres' = rres
  /\ UNCHANGED << wvars, dvars, gvars, rowner, rrng, rreqs, rlast, rfault,
                  openSegments, extentCache, avars >>

RECURSIVE AddReqs(_, _, _)
\* ReadExtent's loop over pes for the hole h: an Empty pe is skipped, a pe
\* equal to the last request's joins it, any other pe starts a request
AddReqs(reqs, pes, h) ==
  IF pes = << >> THEN reqs
  ELSE LET pe == Head(pes)
           n == Len(reqs)
       IN  IF pe.size = 0 THEN AddReqs(reqs, Tail(pes), h)
           ELSE IF n > 0 /\ reqs[n].pe = pe
                THEN AddReqs([reqs EXCEPT ![n].extents = Append(@, h)], Tail(pes), h)
                ELSE AddReqs(Append(reqs, [pe |-> pe, extents |-> << h >>]),
                             Tail(pes), h)

\* ReadExtent, one round of the loop over remaining: d.lba2pba.Resolve(log, h)
ReadResolve ==
  /\ rpc = "resolve"
  /\ rholes # << >>
  /\ rreqs' = AddReqs(rreqs, Resolve(lba2pba, Head(rholes)), Head(rholes))
  /\ rholes' = Tail(rholes)
  /\ IF Tail(rholes) # << >> THEN rpc' = "resolve" /\ rres' = rres
     ELSE IF rreqs' = << >> THEN rpc' = "done" /\ rres' = "ok"
     ELSE rpc' = "fetch" /\ rres' = rres
  /\ UNCHANGED << wvars, dvars, gvars, rowner, rrng, rdata, rlast, rfault,
                  openSegments, extentCache, avars >>

\* the value stored at a body offset of a segment
BodyAt(ents, offset) ==
  LET i == CHOOSE i \in 1 .. Len(ents) : ents[i].size > 0 /\ ents[i].offset = offset
  IN  ents[i].val

RECURSIVE CopyInto(_, _, _, _)
\* readPartialExtent's loop over rngs: the bytes of pe.Partial clamped to each
\* range are copied into dest
CopyInto(data, pe, rngs, val) ==
  IF rngs = << >> THEN data
  ELSE CopyInto([l \in LBAs |->
                   IF Overlaps(pe.partial, Head(rngs))
                      /\ l \in Blocks(Clamp(pe.partial, Head(rngs)))
                   THEN val ELSE data[l]],
                pe, Tail(rngs), val)

\* what ReadExtent does with the result of one readPartialExtent
ReadNext(err) ==
  IF err THEN rpc' = "done" /\ rres' = "err" /\ rreqs' = << >>
  ELSE /\ rreqs' = Tail(rreqs)
       /\ IF Tail(rreqs) = << >> THEN rpc' = "done" /\ rres' = "ok"
          ELSE rpc' = "fetch" /\ rres' = rres

\* Disk.readPartialExtent for the next request.  fault is what the object
\* store does to this call: nothing, an OpenSegment error, a ReadAt error or a
\* short read; a blob that is gone fails OpenSegment (HeadObject) and ReadAt
\* (GetObject) without any fault
ReadPartialExtent(fault) ==
  /\ rpc = "fetch"
  /\ LET pe == Head(rreqs).pe
         key == << pe.seg, pe.offset, pe.size >>
         val == BodyAt(gents[pe.seg], pe.offset)
         filled == CopyInto(rdata, pe, Head(rreqs).extents, val)
     IN  IF key \in extentCache
         THEN \* found in the read cache
              /\ fault = "none"
              /\ rdata' = filled
              /\ ReadNext(FALSE)
              /\ UNCHANGED << rfault, openSegments, extentCache >>
         ELSE IF pe.seg \notin openSegments /\ (fault = "open" \/ pe.seg \notin store)
         THEN \* d.sa.OpenSegment fails: return err
              /\ fault \in {"none", "open"}
              /\ rfault' = IF fault = "open" THEN "open" ELSE "gone"
              /\ ReadNext(TRUE)
              /\ UNCHANGED << rdata, openSegments, extentCache >>
         ELSE IF fault = "read" \/ pe.seg \notin store
         THEN \* ci.ReadAt fails: return nil
              /\ fault \in {"none", "read"}
              /\ rfault' = IF fault = "read" THEN "read" ELSE "gone"
              /\ openSegments' = openSegments \cup {pe.seg}
              /\ ReadNext(FALSE)
              /\ UNCHANGED << rdata, extentCache >>
         ELSE IF fault = "short"
         THEN \* n != len(rawData): short read detected
              /\ rfault' = "short"
              /\ openSegments' = openSegments \cup {pe.seg}
              /\ ReadNext(TRUE)
              /\ UNCHANGED << rdata, extentCache >>
         ELSE /\ fault = "none"
              /\ openSegments' = openSegments \cup {pe.seg}
              /\ extentCache' = extentCache \cup {key}
              /\ IF pe.flags \in {Compressed, Uncompressed}
                 THEN rdata' = filled /\ ReadNext(FALSE)
                 ELSE rdata' = rdata /\ ReadNext(TRUE)
              /\ UNCHANGED rfault
  /\ UNCHANGED << wvars, dvars, gvars, rowner, rrng, rholes, rlast, avars >>

\* ReadExtent has returned; the caller takes the result
ReadReturn ==
  /\ rpc = "done"
  /\ rpc' = "idle"
  /\ rowner' = "none"
  /\ rrng' = Extent(0, 1)
  /\ rdata' = ZeroData
  /\ rholes' = << >>
  /\ rreqs' = << >>
  /\ rlast' = FALSE
  /\ rres' = "none"
  /\ rfault' = "none"
  /\ UNCHANGED << wvars, dvars, gvars, openSegments, extentCache, avars >>

\* ------------------------------------------------------- crash and NewDisk
\* the records of the journal writecache.<ULID> of a creator: one OP_WRITE or
\* OP_ZERO per operation
JournalOf(ents) ==
  [i \in 1 .. Len(ents) |->
     IF ents[i].flags = Empty
     THEN [op |-> "OP_ZERO", ext |-> ents[i].ext, val |-> 0, lz4 |-> FALSE]
     ELSE [op |-> "OP_WRITE", ext |-> ents[i].ext, val |-> ents[i].val,
           lz4 |-> (ents[i].flags = Compressed)]]

RECURSIVE Replay(_, _)
\* the records of a journal replayed into a creator
Replay(ents, recs) ==
  IF recs = << >> THEN ents
  ELSE LET rec == Head(recs)
       IN  Replay(IF rec.op = "OP_ZERO" THEN OcZeroBlocks(ents, rec.ext)
                  ELSE OcWriteExtent(ents, rec.ext, rec.val, rec.lz4),
                  Tail(recs))

RECURSIVE Rebuild(_, _, _)
\* rebuildFromSegments over the listed segments: the header of each is parsed
\* and its entries go through Create and UpdateBatch
Rebuild(m, live, segs) ==
  IF segs = << >> THEN [map |-> m, live |-> live]
  ELSE LET s == Head(segs)
           reg == [u \in DOMAIN live \cup {s} |-> IF u = s THEN 0 ELSE live[u]]
           r == UpdateBatch(m, reg, FlushEntries(gents[s], s))
       IN  Rebuild(r.map, r.live, Tail(segs))

\* the process dies: everything in memory is gone, every goroutine with it.
\* What stays is the object store with its index, the read cache directory
\* and the journal of the current creator; the journals of sealed creators
\* that were not yet flushed are not followed any further
Crash ==
  /\ boots < MaxBoots
  /\ wpc # "dead"
  /\ wpc' = "dead"
  /\ wop' = "none"
  /\ woc' = Nil
  /\ wres' = "none"
  /\ prevCache' = Nil
  /\ lba2pba' = {}
  /\ segments' = << >>
  /\ dead' = {}
  /\ installed' = [s \in SegIds |-> 0]
  /\ openSegments' = {}
  /\ gpc' = [s \in SegIds |-> "none"]
  /\ gctx' = [s \in SegIds |-> FALSE]
  /\ glist' = [s \in SegIds |-> << >>]
  /\ gdel' = [s \in SegIds |-> << >>]
  /\ rpc' = "dead"
  /\ rowner' = "none"
  /\ rrng' = Extent(0, 1)
  /\ rdata' = ZeroData
  /\ rholes' = << >>
  /\ rreqs' = << >>
  /\ rlast' = FALSE
  /\ rres' = "none"
  /\ rfault' = "none"
  /\ UNCHANGED << curSeq, curOC, nwrites, shadow, zeroed, store, index, gents,
                  nfail, extentCache, avars >>

\* NewDisk on the volume of a process that died: restoreWriteCache replays
\* the journal into the current creator, no serialized LBA map is found
\* (saveLBAMap runs only in Close), and rebuildFromSegments opens every
\* segment the index lists; its error is NewDisk's error
NewDisk ==
  /\ wpc = "dead"
  /\ IF \E i \in 1 .. Len(index) : index[i] \notin store
     THEN /\ wpc' = "failed"
          /\ UNCHANGED << curOC, lba2pba, segments, dead, installed, rpc >>
     ELSE LET r == Rebuild({}, << >>, index)
          IN  /\ wpc' = "idle"
              /\ rpc' = "idle"
              /\ curOC' = Replay(<< >>, JournalOf(curOC))
              /\ lba2pba' = r.map
              /\ segments' = r.live
              /\ dead' = { s \in DOMAIN r.live : r.live[s] = 0 }
              /\ installed' = [s \in SegIds |->
                                 Cardinality({ i \in 1 .. Len(index) : index[i] = s })]
  /\ boots' = boots + 1
  /\ UNCHANGED << curSeq, wop, woc, wres, nwrites, shadow, zeroed, prevCache,
                  store, index, gvars, rowner, rrng, rdata, rholes, rreqs, rlast,
                  rres, rfault, openSegments, extentCache, xa, xb, xL, xop, xres,
                  ovars >>

\* ReadExtent by the writer's thread of a reopened disk
ReadAfterBoot(r) == boots > 0 /\ ReadBegin(r, "writer")

\* ---------------------------------------------------------- the extent algebra
\* the extents within blocks 0 .. AlgLBA-1, and the lists of them
AlgExtents ==
  { e \in [lba : 0 .. (AlgLBA - 1), blocks : 1 .. AlgLBA] : e.lba + e.blocks <= AlgLBA }
AlgLists == UNION { [1 .. n -> AlgExtents] : n \in 0 .. MaxList }

\* a receiver is given
AlgInit ==
  /\ DiskInit
  /\ xa \in AlgExtents
  /\ xb = Extent(0, 1)
  /\ xL = << >>
  /\ xop = "none"
  /\ xres = << >>

diskvars == << wvars, dvars, gvars, rpc, rowner, rrng, rdata, rholes, rreqs,
               rlast, rres, rfault, openSegments, extentCache, boots, ovars >>

\* xa.Cover(b)
ApplyCover(b) ==
  /\ xop = "none"
  /\ xop' = "Cover"
  /\ xb' = b
  /\ xres' = << Cover(xa, b) >>
  /\ UNCHANGED << diskvars, xa, xL >>

\* xa.Sub(b)
ApplySub(b) ==
  /\ xop = "none"
  /\ xop' = "Sub"
  /\ xb' = b
  /\ xres' = Sub(xa, b)
  /\ UNCHANGED << diskvars, xa, xL >>

\* xa.SubMany(L)
ApplySubMany(L) ==
  /\ xop = "none"
  /\ xop' = "SubMany"
  /\ xL' = L
  /\ xres' = SubMany(xa, L)
  /\ UNCHANGED << diskvars, xa, xb >>

AlgNext ==
  \/ \E b \in AlgExtents : ApplyCover(b)
  \/ \E b \in AlgExtents : ApplySub(b)
  \/ \E L \in AlgLists : ApplySubMany(L)

AlgSpec == AlgInit /\ [][AlgNext]_vars

\* ------------------------------------------------- the ExtentMap on its own
\* the extents within blocks 0 .. MapLBA-1, and the lists of them a segment
\* may hold
MapExtents ==
  { e \in [lba : 0 .. (MapLBA - 1), blocks : 1 .. MapLBA] : e.lba + e.blocks <= MapLBA }
MapBatches == UNION { [1 .. n -> MapExtents] : n \in 1 .. MaxBatch }

RECURSIVE VectorOf(_, _)
\* the extent vector of a creator that was given the extents es, one raw
\* write each
VectorOf(ents, es) ==
  IF es = << >> THEN ents
  ELSE VectorOf(OcWriteExtent(ents, Head(es), Len(ents) + 1, FALSE), Tail(es))

\* no install is in progress
MapQuiet == \A s \in SegIds : gpc[s] \in {"none", "clear"}

\* oc.Flush has returned the entries of the next segment: the goroutine is
\* about to install them
MapFlushed(es) ==
  /\ MapQuiet
  /\ xop = "none"
  /\ curSeq \in SegIds
  /\ gents' = [gents EXCEPT ![curSeq] = VectorOf(<< >>, es)]
  /\ gpc' = [gpc EXCEPT ![curSeq] = "create"]
  /\ store' = store \cup {curSeq}
  /\ curSeq' = curSeq + 1
  /\ UNCHANGED << curOC, wpc, wop, woc, wres, nwrites, shadow, zeroed,
                  prevCache, lba2pba, segments, dead, index, installed,
                  gctx, glist, gdel, nfail, rvars >>

\* d.lba2pba.Resolve(log, r)
ApplyResolve(r) ==
  /\ MapQuiet
  /\ xop = "none"
  /\ xop' = "Resolve"
  /\ xa' = r
  /\ xres' = Resolve(lba2pba, r)
  /\ UNCHANGED << diskvars, xb, xL >>

MapNext ==
  \/ \E es \in MapBatches : MapFlushed(es)
  \/ \E s \in SegIds : GoCreate(s)
  \/ \E s \in SegIds : GoUpdateBatch(s)
  \/ \E r \in MapExtents : ApplyResolve(r)

MapSpec == Init /\ [][MapNext]_vars

\* ------------------------------------------- the ObjectCreator on its own
\* the extents given to WriteExtent: one or two blocks
ObjExtents == UNION { [1 .. n -> ObjBlocks] : n \in 1 .. 2 }

\* ObjectCreator.WriteExtent(firstBlock, ext)
ObjWriteExtent(firstBlock, ext) ==
  /\ Len(objc.blocks) + Len(ext) <= MaxObjBlocks
  /\ LET r == ObjWriteFrom(objc, firstBlock, ext, 1)
     IN  /\ objc' = r.o
         /\ ocall' = [firstBlock |-> firstBlock, ext |-> ext, err |-> r.err]
  /\ UNCHANGED << wvars, dvars, gvars, rpc, rowner, rrng, rdata, rholes, rreqs,
                  rlast, rres, rfault, openSegments, extentCache, boots,
                  xa, xb, xL, xop, xres, curOCNil, lvars >>

\* ObjectCreator.Reset
ObjReset ==
  /\ objc # NewObjectCreator
  /\ objc' = NewObjectCreator
  /\ ocall' = NoCall
  /\ UNCHANGED << wvars, dvars, gvars, rpc, rowner, rrng, rdata, rholes, rreqs,
                  rlast, rres, rfault, openSegments, extentCache, boots,
                  xa, xb, xL, xop, xres, curOCNil, lvars >>

ObjNext ==
  \/ \E firstBlock \in LBAs, ext \in ObjExtents : ObjWriteExtent(firstBlock, ext)
  \/ ObjReset

ObjSpec == Init /\ [][ObjNext]_vars

\* --------------------------------------------------- the open-segment LRU
\* the segments readPartialExtent is asked for: one more than the LRU holds
LruSegs == 1 .. (LruCapacity + 1)

\* the keys of the cache
LruKeys(c) == { c[i].seg : i \in 1 .. Len(c) }

\* the entry of a key that is in the cache
LruEntry(c, seg) == c[CHOOSE i \in 1 .. Len(c) : c[i].seg = seg]

\* the cache without a key
LruWithout(c, seg) == SelectSeq(c, LAMBDA en : en.seg # seg)

\* the evict callback of NewDisk: value.Close()
CloseReader(closed, rd) == [closed EXCEPT ![rd] = @ + 1]

RECURSIVE CloseAll(_, _)
CloseAll(closed, c) ==
  IF c = << >> THEN closed ELSE CloseAll(CloseReader(closed, Head(c).rd), Tail(c))

\* Cache.Add: a key that is present gets the new value and moves to the
\* front, with no callback for the value it held; a new key goes to the
\* front, and the oldest entry over the size is evicted through the callback
LruAdd(c, closed, seg, rd) ==
  IF seg \in LruKeys(c)
  THEN [c |-> << [seg |-> seg, rd |-> rd] >> \o LruWithout(c, seg),
        closed |-> closed]
  ELSE LET grown == << [seg |-> seg, rd |-> rd] >> \o c
       IN  IF Len(grown) > LruCapacity
           THEN [c |-> SubSeq(grown, 1, LruCapacity),
                 closed |-> CloseReader(closed, grown[Len(grown)].rd)]
           ELSE [c |-> grown, closed |-> closed]

\* what the actions of the LRU leave alone
lrest == << wvars, dvars, gvars, rpc, rowner, rrng, rdata, rholes, rreqs, rlast,
            rres, rfault, extentCache, boots, xa, xb, xL, xop, xres, objc, ocall,
            curOCNil >>

\* readPartialExtent of thread t for a partial extent in seg, after the read
\* cache missed: d.openSegments.Get
LruGet(t, seg) ==
  /\ lclosed = "none"
  /\ lt[t].pc = "idle"
  /\ seg \in store
  /\ IF seg \in LruKeys(lru)
     THEN /\ lru' = << LruEntry(lru, seg) >> \o LruWithout(lru, seg)
          /\ lt' = [lt EXCEPT ![t] = [pc |-> "ReadAt", seg |-> seg,
                                      ci |-> LruEntry(lru, seg).rd]]
     ELSE /\ Len(srClosed) < MaxOpens
          /\ lru' = lru
          /\ lt' = [lt EXCEPT ![t] = [pc |-> "OpenSegment", seg |-> seg, ci |-> 0]]
  /\ UNCHANGED << srClosed, lclosed, openSegments, lrest >>

\* the miss: d.sa.OpenSegment gives a new reader, and d.openSegments.Add
\* stores it
LruOpenAdd(t) ==
  /\ lt[t].pc = "OpenSegment"
  /\ LET rd == Len(srClosed) + 1
         r == LruAdd(lru, Append(srClosed, 0), lt[t].seg, rd)
     IN  /\ lru' = r.c
         /\ srClosed' = r.closed
         /\ openSegments' = LruKeys(r.c)
         /\ lt' = [lt EXCEPT ![t] = [pc |-> "ReadAt", seg |-> lt[t].seg, ci |-> rd]]
  /\ UNCHANGED << lclosed, lrest >>

\* ci.ReadAt, and the call returns
LruReadAt(t) ==
  /\ lt[t].pc = "ReadAt"
  /\ lt' = [lt EXCEPT ![t] = NoRead]
  /\ UNCHANGED << lru, srClosed, lclosed, openSegments, lrest >>

\* Disk.Close once no read is in progress, as far as the LRU goes: an error
\* of CloseSegment returns before the Purge, which runs the callback on
\* every entry
DiskClose(closeSegmentFails) ==
  /\ lclosed = "none"
  /\ \A t \in Threads : lt[t] = NoRead
  /\ IF closeSegmentFails
     THEN /\ lclosed' = "failed"
          /\ UNCHANGED << lru, srClosed, openSegments >>
     ELSE /\ lclosed' = "closed"
          /\ srClosed' = CloseAll(srClosed, lru)
          /\ lru' = << >>
          /\ openSegments' = {}
  /\ UNCHANGED << lt, lrest >>

LruInit ==
  /\ DiskInitOn(LruSegs)
  /\ xa = Extent(0, 1)
  /\ xb = Extent(0, 1)
  /\ xL = << >>
  /\ xop = "none"
  /\ xres = << >>

LruNext ==
  \/ \E t \in Threads, seg \in LruSegs : LruGet(t, seg)
  \/ \E t \in Threads : LruOpenAdd(t)
  \/ \E t \in Threads : LruReadAt(t)
  \/ \E closeSegmentFails \in BOOLEAN : DiskClose(closeSegmentFails)

LruSpec == LruInit /\ [][LruNext]_vars

\* ------------------------------------------------------------- specification
Faults == {"none", "open", "read", "short"}

\* the writer's calls
NextWriter ==
  \/ \E e \in Extents, zero \in BOOLEAN, c \in BOOLEAN : WriteExtent(e, zero, c)
  \/ \E e \in Extents : ZeroBlocks(e)
  \/ CloseSegment
  \/ SetWhenClear
  \/ CloseSegmentWait

\* the steps of the goroutines when no store call fails
NextFlush ==
  \/ \E s \in SegIds : GoFlushUpload(s)
  \/ \E s \in SegIds : GoAppendList(s)
  \/ \E s \in SegIds : GoAppendUpload(s)
  \/ \E s \in SegIds : GoCreate(s)
  \/ \E s \in SegIds : GoUpdateBatch(s)
  \/ \E s \in SegIds : GoClear(s)
  \/ \E s \in SegIds : GoFindDeleted(s)
  \/ \E s \in SegIds : GoRemoveList(s)
  \/ \E s \in SegIds : GoRemoveUpload(s)
  \/ \E s \in SegIds : GoRemoveSegment(s)

\* failing store calls and cancelled contexts
NextFault ==
  \/ \E s \in SegIds : CancelCtx(s)
  \/ \E s \in SegIds : GoFlushFail(s)
  \/ \E s \in SegIds : GoFlushRetry(s)
  \/ \E s \in SegIds : GoCleanupFail(s)

\* ReadExtent, by the writer's thread or by another one
NextRead ==
  \/ \E r \in Extents, who \in {"writer", "other"} : ReadBegin(r, who)
  \/ ReadCur
  \/ ReadPrev
  \/ ReadResolve
  \/ \E f \in Faults : ReadPartialExtent(f)
  \/ ReadReturn

\* the writer and the flush pipeline, with failures and cancellation
Next == NextWriter \/ NextFlush \/ NextFault

Spec == Init /\ [][Next]_vars

\* the writer, the flush pipeline and a reader
NextWithReader == NextWriter \/ NextFlush \/ NextRead

ReadSpec == Init /\ [][NextWithReader]_vars

\* every goroutine keeps running, and a blocked SetWhenClear is woken
Fairness ==
  /\ WF_vars(SetWhenClear)
  /\ \A s \in SegIds :
       /\ WF_vars(GoFlushUpload(s))
       /\ WF_vars(GoAppendList(s))
       /\ WF_vars(GoAppendUpload(s))
       /\ WF_vars(GoFlushFail(s))
       /\ WF_vars(GoFlushRetry(s))
       /\ WF_vars(GoCreate(s))
       /\ WF_vars(GoUpdateBatch(s))
       /\ WF_vars(GoClear(s))

\* Next without ZeroBlocks, which never seals and leaves in the creator what
\* a WriteExtent of zero data leaves
FairNext ==
  \/ \E e \in Extents, zero \in BOOLEAN, c \in BOOLEAN : WriteExtent(e, zero, c)
  \/ CloseSegment
  \/ SetWhenClear
  \/ CloseSegmentWait
  \/ NextFlush
  \/ NextFault

FairSpec == Init /\ [][FairNext]_vars /\ Fairness

\* a WriteExtent of raw data over the whole volume: it seals the creator and
\* overwrites all the previous segment holds
WriteWhole ==
  WriteExtentUpTo(Extent(0, NumLBA), FALSE, FALSE, MaxWrites + 1, MaxSeals + 1)

\* whole-volume writes and the flush pipeline: every install leaves the
\* previous segment dead, and its cleanup runs beside the next flush
IndexNext ==
  \/ WriteWhole
  \/ SetWhenClear
  \/ NextFlush

IndexSpec == Init /\ [][IndexNext]_vars

\* the ranges a WriteExtents call may carry, and the lists of them
Ranges == [ext : Extents, zero : BOOLEAN, compressible : BOOLEAN]
RangeLists == UNION { [1 .. n -> Ranges] : n \in 1 .. MaxRanges }

WriteExtents(ranges, failAt) ==
  WriteExtentsUpTo(ranges, failAt, MaxWrites + 1, MaxSeals)

\* WriteExtents calls, of MaxWrites + 1 ranges in all, and the flush pipeline
BatchNext ==
  \/ \E ranges \in RangeLists, failAt \in 0 .. MaxRanges : WriteExtents(ranges, failAt)
  \/ SetWhenClear
  \/ NextFlush

BatchSpec == Init /\ [][BatchNext]_vars

\* the writer and the flush pipeline when newSegmentCreator may fail
SealNext ==
  \/ \E e \in Extents, zero \in BOOLEAN, c \in BOOLEAN :
       ~curOCNil /\ WriteExtent(e, zero, c)
  \/ ~curOCNil /\ CloseSegment
  \/ SetWhenClear
  \/ CloseSegmentWait
  \/ NextFlush
  \/ \E e \in Extents, zero \in BOOLEAN, c \in BOOLEAN, seqFails \in BOOLEAN :
       WriteExtentSealFail(e, zero, c, seqFails)
  \/ \E seqFails \in BOOLEAN : CloseSegmentFail(seqFails)
  \/ \E call \in {"WriteExtent", "ZeroBlocks", "ReadExtent"} : NilCreatorCall(call)

SealSpec == Init /\ [][SealNext]_vars

\* writes and flushes, the death of the process, NewDisk, and reads of the
\* reopened disk
CrashNext ==
  \/ NextWriter
  \/ NextFlush
  \/ Crash
  \/ NewDisk
  \/ \E r \in Extents : ReadAfterBoot(r)
  \/ ReadCur
  \/ ReadPrev
  \/ ReadResolve
  \/ ReadPartialExtent("none")
  \/ ReadReturn

CrashSpec == Init /\ [][CrashNext]_vars

\* -------------------------------------------------------------------- claims
\* the goroutine of s has started and has not yet run UpdateBatch
BeforeInstall(s) == gpc[s] \in {"flush", "sleep", "append", "appendput", "create", "update"}

\* the goroutine of s has started and has not yet run prevCache.Clear
BeforeClear(s) == BeforeInstall(s) \/ gpc[s] = "clear"

\* the store failures a test can inject into a read
Injected == {"open", "read", "short"}

RECURSIVE Contains(_, _)
Contains(list, x) ==
  IF list = << >> THEN FALSE ELSE Head(list) = x \/ Contains(Tail(list), x)

\* C1: a ReadExtent of the writer's own thread that met no injected store
\* failure returns, for every block of its range, the value of the latest
\* write to that block (zero for a block never written), wherever that write
\* lives: current creator, previous creator or installed segment.
C1_ReadLatest ==
  (rpc = "done" /\ rowner = "writer" /\ rfault \notin Injected)
    => (rres = "ok" /\ \A l \in Blocks(rrng) : rdata[l] = shadow[l])

\* a read over both blocks that took one block from the current creator and
\* the other from an installed segment whose creator has left PreviousCache
C1_Witness ==
  /\ rpc = "done" /\ rowner = "writer" /\ rres = "ok"
  /\ rrng = Extent(0, NumLBA)
  /\ shadow[0] # 0 /\ shadow[1] # 0 /\ shadow[0] # shadow[1]
  /\ curOC # << >> /\ lba2pba # {} /\ prevCache = Nil
  /\ \A l \in Blocks(rrng) : rdata[l] = shadow[l]

\* C2: every creator that is sealed and not yet installed is the current
\* creator or is in PreviousCache.
C2_SealedVisible ==
  /\ wpc = "SetWhenClear" => prevCache = woc
  /\ \A s \in SegIds : BeforeInstall(s) => prevCache.seg = s

\* C3: a goroutine registers its segment only after the upload, installs it
\* only after registering it, and PreviousCache is cleared only when the
\* creator it holds is installed; while a sealed creator's goroutine has not
\* installed it, PreviousCache holds that creator.
C3_FlushInstallClear ==
  /\ [][ /\ \A s \in SegIds :
              /\ (s \in DOMAIN segments' /\ s \notin DOMAIN segments) => s \in store
              /\ installed'[s] > installed[s] => s \in DOMAIN segments
         /\ (prevCache # Nil /\ prevCache' = Nil) => installed[prevCache.seg] > 0
       ]_vars
  /\ [](\A s \in SegIds : BeforeInstall(s) => prevCache.seg = s)

\* a goroutine has uploaded, installed and cleared, after a failed Flush
C3_Witness ==
  \E s \in SegIds :
    /\ gpc[s] = "cleanup" /\ installed[s] = 1 /\ prevCache = Nil
    /\ s \in store /\ s \in DOMAIN segments /\ nfail > 0

C5_RegistryAgreesWithMap ==
  \A s \in SegIds : (s \in DOMAIN segments) <=> (installed[s] > 0)

\* the goroutine of s has installed its segment and cleared PreviousCache
Completed(s) ==
  /\ installed[s] = 1
  /\ prevCache.seg # s
  /\ gpc[s] \in {"cleanup", "rsfvlist", "rsfvput", "remove", "done"}

\* C6: a sealed creator whose context is never cancelled is installed and
\* PreviousCache is cleared of it, however often Flush failed before; no
\* segment is installed twice, and the writer's calls return no flush error.
C6_RetryUntilInstalled ==
  /\ \A s \in SegIds : [](gpc[s] = "flush" => <>(gctx[s] \/ Completed(s)))
  /\ [](\A s \in SegIds : installed[s] <= 1)
  /\ [](wres \in {"none", "ok", "cancelled"})

\* a segment is installed and PreviousCache cleared after a Flush that failed
C6_Witness ==
  \E s \in SegIds : nfail > 0 /\ ~gctx[s] /\ Completed(s)

\* C7: the flush of a sealed creator completes also after the context that
\* its goroutine captured has been cancelled.
C7_CompletesAfterCancel ==
  \A s \in SegIds : []((gctx[s] /\ BeforeInstall(s)) => <>Completed(s))

C9_ReadFailureSurfaces ==
  (rpc = "done" /\ rfault # "none") => rres = "err"

\* the segments a cleanup has found dead and has still to purge, or has
\* given up on after an error
Unpurged == dead \cup UNION { SeqToSet(gdel[g]) : g \in SegIds }

\* C10: a segment with live blocks is in the index and in the store, and a
\* segment that reached zero live blocks and whose cleanup has run is in
\* neither.
C10_PurgeExactlyDead ==
  \A s \in DOMAIN segments :
    /\ segments[s] > 0 => (s \in store /\ Contains(index, s))
    /\ (installed[s] > 0 /\ segments[s] = 0 /\ s \notin Unpurged)
         => (s \notin store /\ ~Contains(index, s))

\* the blocks of the extents of a creator's vector
BlocksOfVector(ents) == UNION { Blocks(ents[i].ext) : i \in 1 .. Len(ents) }

\* C15: after the process died with writes in the journal, NewDisk succeeds
\* and leaves in the current creator what the journal recorded, and a read
\* of the reopened disk returns, for every block the current creator holds,
\* the latest write.
C15_JournalSurvivesCrash ==
  /\ [](wpc = "failed" => curOC = << >>)
  /\ [][ (wpc = "dead" /\ wpc' = "idle") => curOC' = curOC ]_vars
  /\ []((boots > 0 /\ rpc = "done")
          => (rres = "ok" /\ \A l \in Blocks(rrng) \cap BlocksOfVector(curOC) :
                               rdata[l] = shadow[l]))

\* C16: the index that RemoveSegmentFromVolume uploads is the list it read
\* without seg: the other SegmentIds in their order, nothing else.
C16_RemoveUploadsOthers ==
  [][ \A s \in SegIds :
        (gpc[s] = "rsfvput" /\ gpc'[s] = "remove")
          => index' = Keep(glist[s], Head(gdel[s]))
    ]_vars

\* C17: a segment whose AppendToObjects has returned and that no cleanup
\* removes is in the index, whatever RemoveSegmentFromVolume of the preceding
\* flush's cleanup does meanwhile.
C17_AppendSurvivesRemove ==
  \A s \in SegIds :
    (gpc[s] \in {"create", "update"} \/ (s \in DOMAIN segments /\ segments[s] > 0))
      => Contains(index, s)

RECURSIVE SumBlocks(_)
\* the blocks of the partial extents of a set of entries
SumBlocks(S) ==
  IF S = {} THEN 0
  ELSE LET x == CHOOSE x \in S : TRUE IN x.partial.blocks + SumBlocks(S \ {x})

C12_EntriesDisjoint ==
  /\ \A x, y \in lba2pba : x # y => Blocks(x.partial) \cap Blocks(y.partial) = {}
  /\ \A x \in lba2pba : x.partial.blocks >= 1

\* one entry was split into two residuals, and all entries of another
\* segment were clipped to nothing
C12_Witness ==
  /\ \E x, y \in lba2pba :
        x.seg = y.seg /\ x.full = y.full /\ x.offset = y.offset /\ x.partial # y.partial
  /\ \E s \in SegIds :
        installed[s] = 1 /\ gents[s] # << >> /\ { x \in lba2pba : x.seg = s } = {}

\* the blocks the installed segments wrote
Written ==
  UNION { BlocksOfVector(gents[s]) : s \in { u \in SegIds : installed[u] > 0 } }

\* C13: Resolve(r) returns entries in strictly ascending start order, each
\* within r, that together hold exactly the blocks of r that were written.
C13_ResolveCoversWritten ==
  [][ (xop = "none" /\ xop' = "Resolve") =>
        /\ \A i \in 1 .. Len(xres') :
              /\ xres'[i].partial.blocks >= 1
              /\ Blocks(xres'[i].partial) \subseteq Blocks(xa')
        /\ \A i \in 1 .. (Len(xres') - 1) :
              End(xres'[i].partial) <= xres'[i + 1].partial.lba
        /\ UNION { Blocks(xres'[i].partial) : i \in 1 .. Len(xres') }
              = Blocks(xa') \cap Written
    ]_vars

\* a query over all blocks met a clipped entry of one segment and an entry
\* of another, and a block that was never written
C13_Witness ==
  /\ xop = "Resolve" /\ xa = Extent(0, MapLBA)
  /\ Len(xres) = 2 /\ xres[1].seg # xres[2].seg
  /\ xres[1].partial # xres[1].full
  /\ ~(Blocks(xa) \subseteq Written)

\* C14: a read of the writer's thread over blocks whose latest write is a
\* ZeroBlocks returns zeros for them, wherever older data for these blocks
\* lives and whether or not the zeroing creator has been installed.
C14_ZeroThenRead ==
  (rpc = "done" /\ rowner = "writer" /\ rfault \notin Injected
     /\ Blocks(rrng) \subseteq zeroed)
    => (rres = "ok" /\ \A l \in Blocks(rrng) : rdata[l] = 0)

\* the zeroing creator is installed, its Empty entry is in the ExtentMap, and
\* an older installed segment holds non-zero data for the block read
C14_Witness ==
  /\ rpc = "done" /\ rowner = "writer" /\ rres = "ok"
  /\ Blocks(rrng) \subseteq zeroed
  /\ curOC = << >> /\ prevCache = Nil
  /\ \E x \in lba2pba : x.flags = Empty /\ Blocks(rrng) \subseteq Blocks(x.partial)
  /\ \E s \in SegIds : installed[s] > 0 /\
        \E i \in 1 .. Len(gents[s]) :
           gents[s][i].val # 0 /\ Blocks(rrng) \subseteq Blocks(gents[s][i].ext)

\* the blocks of a list of extents
BlocksOf(L) == UNION { Blocks(L[i]) : i \in 1 .. Len(L) }

\* the extents of L have blocks, ascend and do not touch
AscendingApart(L) ==
  /\ \A i \in 1 .. Len(L) : L[i].blocks >= 1
  /\ \A i \in 1 .. (Len(L) - 1) : End(L[i]) < L[i + 1].lba

\* the list L in the order p
Permuted(L, p) == [i \in 1 .. Len(L) |-> L[p[i]]]

\* C18: SubMany(a, L) is, in ascending order, the maximal runs of the blocks
\* of a that no extent of L holds, and every permutation of L gives the same
\* list.
C18_SubManyIsDifference ==
  xop = "SubMany" =>
    /\ AscendingApart(xres)
    /\ BlocksOf(xres) = Blocks(xa) \ BlocksOf(xL)
    /\ \A p \in Permutations(1 .. Len(xL)) : SubMany(xa, Permuted(xL, p)) = xres

\* three extents given out of order, two of them adjacent, leave two runs
C18_Witness ==
  /\ xop = "SubMany" /\ Len(xL) = 3 /\ Len(xres) = 2
  /\ xL[1].lba > xL[2].lba
  /\ \E i, j \in 1 .. 3 : End(xL[i]) = xL[j].lba

\* C19: for overlapping a and b, Sub(a, b) is at most two extents, ascending
\* and disjoint, whose blocks are those of a that are not in b.
C19_SubIsDifference ==
  (xop = "Sub" /\ Blocks(xa) \cap Blocks(xb) # {}) =>
    /\ Len(xres) <= 2
    /\ AscendingApart(xres)
    /\ BlocksOf(xres) = Blocks(xa) \ Blocks(xb)

\* b lies strictly inside a: two residuals
C19_Witness ==
  /\ xop = "Sub" /\ xa.lba < xb.lba /\ End(xb) < End(xa)
  /\ Len(xres) = 2

\* C20: Cover(a, b) is Exact iff a = b, None iff they share no block,
\* SuperRange iff a holds every block of b and differs from b, Partly
\* otherwise, also when b strictly contains a.
C20_CoverCases ==
  xop = "Cover" =>
    LET c == xres[1]
    IN  /\ c \in {CoverExact, CoverSuperRange, CoverPartly, CoverNone}
        /\ (c = CoverExact) <=> (xa = xb)
        /\ (c = CoverNone) <=> (Blocks(xa) \cap Blocks(xb) = {})
        /\ (c = CoverSuperRange) <=> (Blocks(xb) \subseteq Blocks(xa) /\ xa # xb)
        /\ (Blocks(xa) \subseteq Blocks(xb) /\ xa # xb) => c = CoverPartly

\* b strictly contains a: Partly
C20_Witness ==
  /\ xop = "Cover" /\ xres = << CoverPartly >>
  /\ xb.lba < xa.lba /\ End(xa) < End(xb)

\* C21: a WriteExtents call appends the ranges it wrote to the vector of the
\* one creator that was current when it began and seals at most once: the
\* creator is sealed, with all of them in it, exactly when the call met no
\* error and the body after the last range is at the threshold, so a range
\* that fills the creator does not push the ranges after it to the next one
C21_WriteExtentsOneSegment ==
  [][(wpc = "idle" /\ nwrites' > nwrites)
       => LET k == nwrites' - nwrites
              n == IF wres' = "err" THEN k - 1 ELSE k
              sealed == curSeq' # curSeq
              vec == IF sealed THEN woc'.ents ELSE curOC'
          IN  /\ curSeq' \in {curSeq, curSeq + 1}
              /\ Len(vec) = Len(curOC) + n
              /\ SubSeq(vec, 1, Len(curOC)) = curOC
              /\ sealed => (woc'.seg = curSeq /\ curOC' = << >>)
              /\ sealed <=> (wres' # "err" /\ BodySizeOf(vec) >= FlushThreshHold)]_vars

\* a call of two ranges was sealed as one segment although the first range
\* alone had filled the creator
C21_Witness ==
  /\ wpc = "SetWhenClear" /\ wop = "write"
  /\ nwrites = 2
  /\ Len(woc.ents) = 2
  /\ woc.ents[1].val = 1 /\ woc.ents[2].val = 2
  /\ woc.ents[1].size >= FlushThreshHold
  /\ curOC = << >>

\* the sum of the sizes of the first n records
RECURSIVE SizesBefore(_, _)
SizesBefore(blocks, n) ==
  IF n = 0 THEN 0 ELSE blocks[n].size + SizesBefore(blocks, n - 1)

\* the blocks of the last call that WriteExtent got through
Recorded ==
  IF ocall.err
  THEN (CHOOSE i \in 1 .. Len(ocall.ext) :
          /\ ~ocall.ext[i].zero /\ ocall.ext[i].lz4 = LzErr
          /\ \A j \in 1 .. (i - 1) : ocall.ext[j].zero \/ ocall.ext[j].lz4 # LzErr) - 1
  ELSE Len(ocall.ext)

\* C22: the creator holds one record for every block of the last extent it
\* was given, in order: Empty with size 0 for a zero block, Compressed with
\* the lz4 size when 0 < csize < BlockSize, Uncompressed with size BlockSize
\* otherwise; every record that is not Empty lies at the sum of the sizes of
\* the records before it, and the running offset is the length of the body
C22_BlockRecords ==
  LET bl == objc.blocks
      base == Len(bl) - Recorded
  IN  /\ base >= 0
      /\ \A i \in 1 .. Recorded :
           LET b == ocall.ext[i]
               r == bl[base + i]
           IN  /\ r.lba = ocall.firstBlock + (i - 1)
               /\ b.zero => (r.flags = Empty /\ r.size = 0)
               /\ ~b.zero =>
                    /\ (r.flags = Compressed) <=> (0 < b.lz4 /\ b.lz4 < BlockSize)
                    /\ r.flags = Compressed => r.size = b.lz4
                    /\ r.flags # Compressed => (r.flags = Uncompressed /\ r.size = BlockSize)
      /\ \A i \in 1 .. Len(bl) :
           bl[i].flags # Empty => bl[i].offset = SizesBefore(bl, i - 1)
      /\ objc.offset = BodyLen(objc.body)
      /\ objc.offset = SizesBefore(bl, Len(bl))

\* an incompressible block (lz4 gives 0) was stored raw behind a zero block
\* and a compressed one
C22_Witness ==
  /\ Len(objc.blocks) = 3
  /\ objc.blocks[1].flags = Empty
  /\ objc.blocks[2].flags = Compressed
  /\ objc.blocks[3].flags = Uncompressed
  /\ objc.blocks[3].offset = objc.blocks[2].size
  /\ Len(ocall.ext) = 2 /\ ~ocall.err
  /\ ocall.ext[2].lz4 = 0

\* C23: a WriteExtent or CloseSegment that returns the error of a failed
\* newSegmentCreator leaves the disk as it was: d.curOC is still a creator
\* and holds at least the writes it held, d.curSeq is unchanged, and no
\* later call fails on a missing creator
C23_SealFailureKeepsState ==
  /\ [][(~curOCNil /\ wres' = "err")
          => /\ ~curOCNil'
             /\ curSeq' = curSeq
             /\ Len(curOC') >= Len(curOC)
             /\ SubSeq(curOC', 1, Len(curOC)) = curOC]_vars
  /\ [](wres # "panic")

\* C24: no ReadExtent meets a segment that was removed from the store after
\* the read resolved a partial extent in it: neither its OpenSegment nor its
\* ReadAt finds the blob gone
C24_ReadSurvivesCleanup == rfault # "gone"

\* the readers some thread holds in readPartialExtent
HeldReaders == { lt[t].ci : t \in { u \in Threads : lt[u].pc = "ReadAt" } }

\* C25: the LRU holds at most its capacity of readers; no reader is closed
\* twice, and none is closed while a thread that got it still has its ReadAt
\* to do; a reader that is neither in the LRU nor held by a thread has been
\* closed, and after the Purge of Disk.Close every reader has been closed
\* exactly once
C25_ReadersClosedOnce ==
  /\ Len(lru) <= LruCapacity
  /\ \A rd \in 1 .. Len(srClosed) :
       /\ srClosed[rd] <= 1
       /\ rd \in HeldReaders => srClosed[rd] = 0
       /\ (rd \notin HeldReaders /\ \A i \in 1 .. Len(lru) : lru[i].rd # rd)
            => srClosed[rd] = 1
       /\ lclosed = "closed" => srClosed[rd] = 1

====
